---- MODULE Spec2Model ----
(***************************************************************************)
(* Location tracking core of the NTC bus tracker: the LocationUpdate model *)
(* (src/unnamed/part_005), its controller (the second half of              *)
(* src/src/routes/authRoutes.js), the request validation in front of it    *)
(* (src/src/middleware/validate.js, src/src/utils/validationSchemas.js).   *)
(*                                                                         *)
(* Units.  Time is counted in seconds: the source counts milliseconds and  *)
(* every duration it uses is a whole number of seconds, and TLC's integers *)
(* are 32 bits wide (30 days of milliseconds do not fit).  Coordinates are *)
(* in 1/10000 of a degree, distances in metres.  A request body is a       *)
(* record whose domain is the set of keys the client sent                  *)
(* (coordinates.lat and coordinates.lng are the keys lat and lng).         *)
(***************************************************************************)
EXTENDS Integers, Sequences, FiniteSets, TLC

VARIABLES
    now,      \* the clock (Date.now()), in seconds
    ticks,    \* how many times the clock has advanced
    buses,    \* the Bus collection: bus id -> status, for the buses that exist
    store,    \* the LocationUpdate collection, in insertion order
    nextId,   \* the next generated _id
    reqs,     \* per client: the createLocationUpdate request in flight
    resp,     \* the response (or error passed to next) of the last step
    acked,    \* history: the documents returned by a 201
    purged,   \* history: the _ids of the documents a purge has deleted
    indexes   \* the indexes of the LocationUpdate collection

vars ==
    <<now, ticks, buses, store, nextId, reqs, resp, acked, purged, indexes>>

---------------------------------------------------------------------------
(* Bounds of the model *)

MaxSamples == 2
MaxTicks == 2

Clients == {"c1", "c2"}

(* Durations of the source, in seconds *)
TenMinutes == 10 * 60
OneDay == 24 * 60 * 60
TTLSeconds == 30 * 24 * 60 * 60

(* 24-character hexadecimal strings: the identifiers that are well formed *)
ObjectIds == {"b1", "b2", "b9", "t1", "t2"}

(* The Trip collection: the trips that exist (t2 is the well-formed id of no
   trip) *)
Trips == {"t1"}
InitBuses == [b \in {"b1", "b2"} |-> IF b = "b1" THEN "active" ELSE "inactive"]

Has(r, k) == k \in DOMAIN r

Nil == [nil |-> TRUE]
NoResp == [op |-> "none", code |-> 0, data |-> <<>>]

---------------------------------------------------------------------------
(* Request bodies a client sends to POST /api/locations *)

(* The query point (6.9271, 79.8612) and three points north of it on the
   same meridian: 2.0015 km, 5.0038 km and 8.0060 km away *)
QLat == 6 * 10000 + 9271
QLng == 79 * 10000 + 8612
Lat2km == QLat + 180
Lat5km == QLat + 450
Lat8km == QLat + 720
(* A point east of the 2.0015 km one, 2.0035 km away from the query point *)
Lng2km == QLng + 8

ValidBodies ==
    { [busId |-> "b1", tripId |-> "t1", lat |-> Lat2km, lng |-> QLng,
       speed |-> 40, heading |-> 90, accuracy |-> 5],
      [busId |-> "b1", lat |-> Lat5km, lng |-> QLng],
      [busId |-> "b2", lat |-> Lat8km, lng |-> QLng, speed |-> 3,
       heading |-> 360, accuracy |-> 0],
      [busId |-> "b2", lat |-> 900000, lng |-> 1800000, speed |-> 120,
       heading |-> 0],
      [busId |-> "b1", lat |-> -900000, lng |-> -1800000, speed |-> 5],
      [busId |-> "b1", lat |-> QLat, lng |-> QLng, speed |-> 0,
       timestamp |-> -5] }

UnknownBusBodies ==
    { [busId |-> "b9", lat |-> QLat, lng |-> QLng, speed |-> 40] }

InvalidBodies ==
    { [busId |-> "b1", lat |-> 900001, lng |-> QLng],
      [busId |-> "b1", lat |-> -900001, lng |-> QLng],
      [busId |-> "b1", lat |-> QLat, lng |-> 1800001],
      [busId |-> "b1", lat |-> QLat, lng |-> -1800001],
      [busId |-> "b1", lat |-> QLat, lng |-> QLng, speed |-> -1],
      [busId |-> "b1", lat |-> QLat, lng |-> QLng, speed |-> 121],
      [busId |-> "b1", lat |-> QLat, lng |-> QLng, heading |-> -1],
      [busId |-> "b1", lat |-> QLat, lng |-> QLng, heading |-> 361],
      [busId |-> "b1", lat |-> QLat, lng |-> QLng, accuracy |-> -1],
      [busId |-> "b1", lat |-> QLat, lng |-> QLng, speed |-> 40,
       status |-> "stopped"],
      [busId |-> "b1", lng |-> QLng],
      [busId |-> "zz", lat |-> QLat, lng |-> QLng],
      [busId |-> "b9", lat |-> 900001, lng |-> QLng],
      [lat |-> QLat, lng |-> QLng] }

Bodies == ValidBodies \cup UnknownBusBodies \cup InvalidBodies

---------------------------------------------------------------------------
(* validate(createLocationUpdateSchema): the Joi schema of the body *)

BodyKeys == {"busId", "tripId", "lat", "lng", "speed", "heading", "accuracy",
             "timestamp"}

InRange(r, k, lo, hi) == Has(r, k) => (r[k] >= lo /\ r[k] <= hi)

(* A body schema that forgot the upper bound of the speed *)
createLocationUpdateSchema_NoSpeedMax(body) ==
    /\ DOMAIN body \subseteq BodyKeys
    /\ Has(body, "busId") /\ body.busId \in ObjectIds
    /\ Has(body, "tripId") => body.tripId \in ObjectIds
    /\ Has(body, "lat") /\ body.lat >= -900000 /\ body.lat <= 900000
    /\ Has(body, "lng") /\ body.lng >= -1800000 /\ body.lng <= 1800000
    /\ Has(body, "speed") => body.speed >= 0
    /\ InRange(body, "heading", 0, 360)
    /\ Has(body, "accuracy") => body.accuracy >= 0

createLocationUpdateSchema(body) ==
    /\ DOMAIN body \subseteq BodyKeys
    /\ Has(body, "busId") /\ body.busId \in ObjectIds
    /\ Has(body, "tripId") => body.tripId \in ObjectIds
    /\ Has(body, "lat") /\ body.lat >= -900000 /\ body.lat <= 900000
    /\ Has(body, "lng") /\ body.lng >= -1800000 /\ body.lng <= 1800000
    /\ InRange(body, "speed", 0, 120)
    /\ InRange(body, "heading", 0, 360)
    /\ Has(body, "accuracy") => body.accuracy >= 0

validate(body) == createLocationUpdateSchema(body)

(* idParamSchema: params is an object with the key id, a string of 24
   hexadecimal digits, and no other key (Joi.object refuses unknown keys) *)
idParamSchema(params) ==
    /\ DOMAIN params \subseteq {"id"}
    /\ Has(params, "id")
    /\ params.id \in ObjectIds

(* validate(idParamSchema) on req.params *)
validateParams(params) == idParamSchema(params)

---------------------------------------------------------------------------
(* The LocationUpdate schema *)

(* A pre-save hook whose idle range takes in the boundary speed 5 *)
preSaveStatus_IdleAtFive(speed) ==
    IF speed = 0 THEN "stopped"
    ELSE IF speed > 0 /\ speed <= 5 THEN "idle"
    ELSE "moving"

(* pre('save'): the status is derived from the speed *)
preSaveStatus(speed) ==
    IF speed = 0 THEN "stopped"
    ELSE IF speed > 0 /\ speed < 5 THEN "idle"
    ELSE "moving"

(* The document LocationUpdate.create builds from the fields the controller
   passes: absent optional fields stay absent, speed defaults to 0. *)
NewDocument(body, ts) ==
    [k \in ({"busId", "lat", "lng", "speed", "timestamp", "status"}
            \cup (DOMAIN body \cap {"tripId", "heading", "accuracy"})) |->
        CASE k = "speed" -> (IF Has(body, "speed") THEN body.speed ELSE 0)
          [] k = "timestamp" -> ts
          [] k = "status" -> "moving"
          [] OTHER -> body[k]]

(* The schema's validators, run before the save *)
SchemaValid(doc) ==
    /\ doc.lat >= -900000 /\ doc.lat <= 900000
    /\ doc.lng >= -1800000 /\ doc.lng <= 1800000
    /\ doc.speed >= 0 /\ doc.speed <= 120
    /\ InRange(doc, "heading", 0, 360)
    /\ Has(doc, "accuracy") => doc.accuracy >= 0
    /\ doc.status \in {"moving", "stopped", "idle"}

(* The document as saved: validators passed, pre-save hook applied, _id set *)
SavedDocument(doc, id) ==
    [k \in (DOMAIN doc \cup {"id"}) |->
        CASE k = "id" -> id
          [] k = "status" -> preSaveStatus(doc.speed)
          [] OTHER -> doc[k]]

---------------------------------------------------------------------------
(* Authentication (middleware/auth, in src/src/middleware/validate.js) *)

(* The User collection: an administrator, an operator, a commuter and a
   suspended administrator; ug is the id of no user. *)
Users ==
    [u \in {"ua", "uo", "uc", "ux"} |->
        [role |-> CASE u = "uo" -> "operator" [] u = "uc" -> "commuter"
                    [] OTHER -> "admin",
         status |-> IF u = "ux" THEN "suspended" ELSE "active"]]

(* What a request carries for its authentication: no Authorization header,
   or a bearer token; valid tells whether jwt.verify accepts the token, id is
   the user id the token was signed for. *)
NoAuth == [kind |-> "none"]
Bearer(id, valid) == [kind |-> "bearer", valid |-> valid, id |-> id]
AdminAuth == Bearer("ua", TRUE)
OperatorAuth == Bearer("uo", TRUE)

AuthInputs ==
    { NoAuth, Bearer("ua", FALSE), AdminAuth, OperatorAuth,
      Bearer("uc", TRUE), Bearer("ux", TRUE), Bearer("ug", TRUE) }

(* protect: 0 when it calls next(), else the status of the error *)
protect(auth) ==
    IF auth.kind = "none" THEN 401
    ELSE IF ~auth.valid THEN 401
    ELSE IF auth.id \notin DOMAIN Users THEN 401
    ELSE IF Users[auth.id].status # "active" THEN 401
    ELSE 0

(* A role check that lets every role through *)
restrictTo_Open(roles, auth) == 0

(* restrictTo(...roles), on the user protect attached to the request *)
restrictTo(roles, auth) ==
    IF Users[auth.id].role \in roles THEN 0 ELSE 403

(* router.use(protect) followed by restrictTo(...roles) *)
Guard(roles, auth) ==
    IF protect(auth) # 0 THEN protect(auth) ELSE restrictTo(roles, auth)

---------------------------------------------------------------------------
(* The indexes of the LocationUpdate collection *)

(* The indexes the schema declares, in the order Mongoose creates them: those
   declared on a path (index: true) first, then those of schema.index(), in
   the order of the calls. *)
DeclaredIndexes ==
    << [name |-> "busId_1"],
       [name |-> "tripId_1"],
       [name |-> "timestamp_1"],
       [name |-> "busId_1_timestamp_-1"],
       [name |-> "tripId_1_timestamp_-1"],
       [name |-> "timestamp_-1"],
       [name |-> "coordinates.lat_1_coordinates.lng_1"],
       [name |-> "timestamp_1", expireAfterSeconds |-> TTLSeconds] >>

(* What the database holds when the server starts: a new database has no
   index; a database prepared outside the server may already hold the TTL
   index. *)
ExistingIndexes ==
    { {}, {[name |-> "timestamp_1", expireAfterSeconds |-> TTLSeconds]} }

(* createIndex: creating an index whose name is taken by an index with other
   options is an error and leaves the indexes as they are. *)
createIndex(existing, ix) ==
    IF \E e \in existing : e.name = ix.name THEN existing
    ELSE existing \cup {ix}

RECURSIVE ensureIndexes(_, _)
(* Model.ensureIndexes (autoIndex): creates the declared indexes one by one
   and goes on after an error. *)
ensureIndexes(existing, declared) ==
    IF declared = <<>> THEN existing
    ELSE ensureIndexes(createIndex(existing, Head(declared)), Tail(declared))

(* The TTL indexes of the collection *)
TTLIndexes == {ix \in indexes : "expireAfterSeconds" \in DOMAIN ix}

---------------------------------------------------------------------------
(* The state once the server has started on a database that held the
   indexes existing *)
InitWith(existing) ==
    /\ indexes = ensureIndexes(existing, DeclaredIndexes)
    /\ now = 0
    /\ ticks = 0
    /\ buses = InitBuses
    /\ store = <<>>
    /\ nextId = 1
    /\ reqs = [c \in Clients |-> [pc |-> "idle", body |-> Nil, doc |-> Nil]]
    /\ resp = NoResp
    /\ acked = {}
    /\ purged = {}

(* The server started on a new database *)
Init == InitWith({})

(* The server started on either database; the indexes matter to the
   retention rule alone. *)
InitAnyDatabase == \E existing \in ExistingIndexes : InitWith(existing)

InFlight == {c \in Clients : reqs[c].pc # "idle"}

(* The clock advances *)
Tick(d) ==
    /\ ticks < MaxTicks
    /\ now' = now + d
    /\ ticks' = ticks + 1
    /\ resp' = NoResp
    /\ UNCHANGED <<indexes, buses, store, nextId, reqs, acked, purged>>

(* POST /api/locations: protect, restrictTo('operator', 'admin'), then
   validate(createLocationUpdateSchema): a request that fails the first two
   is answered 401 or 403, a body that fails the third is answered 400, one
   that passes enters the controller. *)
PostLocation(c, auth, body) ==
    /\ reqs[c].pc = "idle"
    /\ (nextId - 1) + Cardinality(InFlight) < MaxSamples
    /\ IF Guard({"operator", "admin"}, auth) # 0
       THEN /\ resp' = [op |-> "create", client |-> c,
                        code |-> Guard({"operator", "admin"}, auth),
                        body |-> body, auth |-> auth, data |-> <<>>]
            /\ UNCHANGED reqs
       ELSE IF validate(body)
       THEN /\ reqs' = [reqs EXCEPT ![c] = [pc |-> "findBus", body |-> body,
                                             doc |-> Nil, auth |-> auth]]
            /\ resp' = NoResp
       ELSE /\ resp' = [op |-> "create", client |-> c, code |-> 400,
                        body |-> body, auth |-> auth, data |-> <<>>]
            /\ UNCHANGED reqs
    /\ UNCHANGED <<indexes, now, ticks, buses, store, nextId, acked, purged>>

(* POST /api/locations sent by an operator who is logged in *)
Submit(c, body) == PostLocation(c, OperatorAuth, body)

(* A controller that does not check what Bus.findById returned *)
FindBus_NoCheck(c) ==
    /\ reqs[c].pc = "findBus"
    /\ reqs' = [reqs EXCEPT ![c].pc = "create",
                            ![c].doc = NewDocument(reqs[c].body, now)]
    /\ resp' = NoResp
    /\ UNCHANGED <<indexes, now, ticks, buses, store, nextId, acked, purged>>

(* createLocationUpdate up to its second await: Bus.findById, then the
   document is built with timestamp new Date(). *)
FindBus(c) ==
    /\ reqs[c].pc = "findBus"
    /\ IF reqs[c].body.busId \in DOMAIN buses
       THEN /\ reqs' = [reqs EXCEPT ![c].pc = "create",
                                    ![c].doc = NewDocument(reqs[c].body, now)]
            /\ resp' = NoResp
       ELSE /\ reqs' = [reqs EXCEPT ![c] = [pc |-> "idle", body |-> Nil,
                                             doc |-> Nil]]
            /\ resp' = [op |-> "create", client |-> c, code |-> 404,
                        body |-> reqs[c].body, data |-> <<>>]
    /\ UNCHANGED <<indexes, now, ticks, buses, store, nextId, acked, purged>>

(* A create that saves over the newest stored document of the same bus
   instead of inserting a new one *)
Create_Upsert(c) ==
    /\ reqs[c].pc = "create"
    /\ LET doc == SavedDocument(reqs[c].doc, nextId)
           same == {i \in DOMAIN store : store[i].busId = doc.busId}
       IN  /\ store' = IF same = {} THEN Append(store, doc)
                       ELSE [store EXCEPT ![CHOOSE i \in same : TRUE] = doc]
           /\ reqs' = [reqs EXCEPT ![c].pc = "respond", ![c].doc = doc]
    /\ nextId' = nextId + 1
    /\ resp' = NoResp
    /\ UNCHANGED <<indexes, now, ticks, buses, acked, purged>>

(* A create whose insert is not awaited: the controller goes on to answer
   with the document while nothing has been stored *)
Create_NotAwaited(c) ==
    /\ reqs[c].pc = "create"
    /\ reqs' = [reqs EXCEPT ![c].pc = "respond",
                            ![c].doc = SavedDocument(reqs[c].doc, nextId)]
    /\ nextId' = nextId + 1
    /\ resp' = NoResp
    /\ UNCHANGED <<indexes, now, ticks, buses, store, acked, purged>>

(* A create that gives every document the same _id *)
Create_FixedId(c) ==
    /\ reqs[c].pc = "create"
    /\ store' = Append(store, SavedDocument(reqs[c].doc, 1))
    /\ nextId' = nextId + 1
    /\ reqs' = [reqs EXCEPT ![c].pc = "respond",
                            ![c].doc = SavedDocument(reqs[c].doc, 1)]
    /\ resp' = NoResp
    /\ UNCHANGED <<indexes, now, ticks, buses, acked, purged>>

(* LocationUpdate.create: validators, pre-save hook, insert *)
Create(c) ==
    /\ reqs[c].pc = "create"
    /\ IF SchemaValid(reqs[c].doc)
       THEN /\ store' = Append(store, SavedDocument(reqs[c].doc, nextId))
            /\ nextId' = nextId + 1
            /\ reqs' = [reqs EXCEPT ![c].pc = "respond",
                                    ![c].doc = SavedDocument(reqs[c].doc, nextId)]
            /\ resp' = NoResp
       ELSE /\ reqs' = [reqs EXCEPT ![c] = [pc |-> "idle", body |-> Nil,
                                             doc |-> Nil]]
            /\ resp' = [op |-> "create", client |-> c, code |-> 500,
                        body |-> reqs[c].body, data |-> <<>>]
            /\ UNCHANGED <<store, nextId>>
    /\ UNCHANGED <<indexes, now, ticks, buses, acked, purged>>

(* res.status(201).json({ locationUpdate }) *)
Respond(c) ==
    /\ reqs[c].pc = "respond"
    /\ resp' = [op |-> "create", client |-> c, code |-> 201,
                body |-> reqs[c].body, data |-> <<reqs[c].doc>>]
    /\ reqs' = [reqs EXCEPT ![c] = [pc |-> "idle", body |-> Nil, doc |-> Nil]]
    /\ acked' = acked \cup {reqs[c].doc}
    /\ UNCHANGED <<indexes, now, ticks, buses, store, nextId, purged>>

---------------------------------------------------------------------------
(* Queries of the LocationUpdate model *)

Range(q) == {q[i] : i \in DOMAIN q}

Samples == Range(store)

(* select(fields): the projection of a document; _id is always kept *)
Select(s, fields) == [k \in (DOMAIN s \cap (fields \cup {"id"})) |-> s[k]]

HistoryFields == {"lat", "lng", "speed", "timestamp", "status"}

(* The orders in which a query sorted by ascending timestamp may return the
   documents S: the store does not define the order of equal keys. *)
SortedByTimestamp(S) ==
    {q \in [1..Cardinality(S) -> S] :
        /\ \A i, j \in DOMAIN q : i # j => q[i] # q[j]
        /\ \A i, j \in DOMAIN q : i < j => q[i].timestamp <= q[j].timestamp}

(* A latest-location lookup sorted the wrong way round *)
getLatestLocation_Ascending(busId) ==
    {s \in Samples :
        /\ s.busId = busId
        /\ \A t \in Samples : t.busId = busId => t.timestamp >= s.timestamp}

(* statics.getLatestLocation: findOne({busId}).sort({timestamp: -1}); the
   documents it may return (none when the bus has no document). *)
getLatestLocation(busId) ==
    {s \in Samples :
        /\ s.busId = busId
        /\ \A t \in Samples : t.busId = busId => t.timestamp <= s.timestamp}

(* A history query whose window leaves its two bounds out *)
getLocationHistory_Exclusive(busId, startTime, endTime) ==
    {[i \in DOMAIN q |-> Select(q[i], HistoryFields)] :
        q \in SortedByTimestamp({s \in Samples :
                /\ s.busId = busId
                /\ s.timestamp > startTime
                /\ s.timestamp < endTime})}

(* statics.getLocationHistory: the result lists it may return *)
getLocationHistory(busId, startTime, endTime) ==
    {[i \in DOMAIN q |-> Select(q[i], HistoryFields)] :
        q \in SortedByTimestamp({s \in Samples :
                /\ s.busId = busId
                /\ s.timestamp >= startTime
                /\ s.timestamp <= endTime})}

(* Array.prototype.slice(0, end) *)
Slice0(q, end) ==
    LET n == Len(q)
        e == IF end < 0 THEN (IF n + end < 0 THEN 0 ELSE n + end)
             ELSE (IF end > n THEN n ELSE end)
    IN  SubSeq(q, 1, e)

(* parseInt(x, 10) || dflt and parseFloat(x) || dflt, for a query parameter
   that is absent or a decimal integer: absent parses to NaN, and NaN and 0
   are falsy. *)
ParseNumberOr(query, key, dflt) ==
    IF Has(query, key) /\ query[key] # 0 THEN query[key] ELSE dflt

DefaultLimit == 100

---------------------------------------------------------------------------
(* Controller: the read operations *)

(* GET /bus/:busId/latest *)
GetLatestLocation(busId) ==
    /\ IF getLatestLocation(busId) = {}
       THEN resp' = [op |-> "latest", busId |-> busId, code |-> 404,
                     data |-> <<>>]
       ELSE \E s \in getLatestLocation(busId) :
               resp' = [op |-> "latest", busId |-> busId, code |-> 200,
                        data |-> <<s>>]
    /\ UNCHANGED <<indexes, now, ticks, buses, store, nextId, reqs, acked, purged>>

(* GET /bus/:busId/history?startTime=&endTime=&limit=  The response carries
   the truncated list as data; window is the list before the truncation, kept
   to state what the truncation did. *)
GetLocationHistory(busId, query) ==
    LET limit == ParseNumberOr(query, "limit", DefaultLimit)
        endTime == IF Has(query, "endTime") THEN query.endTime ELSE now
        startTime == IF Has(query, "startTime") THEN query.startTime
                     ELSE now - OneDay
    IN  /\ \E locations \in getLocationHistory(busId, startTime, endTime) :
              resp' = [op |-> "history", busId |-> busId, query |-> query,
                       code |-> 200, startTime |-> startTime,
                       endTime |-> endTime, window |-> locations,
                       data |-> Slice0(locations, limit)]
        /\ UNCHANGED <<indexes, now, ticks, buses, store, nextId, reqs, acked, purged>>

(* A trip query that also returns the documents that carry no tripId *)
GetLocationsByTrip_Untagged(tripId) ==
    /\ \E q \in SortedByTimestamp({s \in Samples :
                      ~Has(s, "tripId") \/ s.tripId = tripId}) :
          resp' = [op |-> "byTrip", tripId |-> tripId, code |-> 200,
                   data |-> [i \in DOMAIN q |-> Select(q[i], HistoryFields)]]
    /\ UNCHANGED <<indexes, now, ticks, buses, store, nextId, reqs, acked, purged>>

(* GET /trip/:tripId: find({tripId}).sort('timestamp').select(...); a
   document without a tripId matches no trip. *)
GetLocationsByTrip(tripId) ==
    /\ \E q \in SortedByTimestamp({s \in Samples :
                      Has(s, "tripId") /\ s.tripId = tripId}) :
          resp' = [op |-> "byTrip", tripId |-> tripId, code |-> 200,
                   data |-> [i \in DOMAIN q |-> Select(q[i], HistoryFields)]]
    /\ UNCHANGED <<indexes, now, ticks, buses, store, nextId, reqs, acked, purged>>

(* PUT /api/buses/:id with a body that sets the status (busController
   updateBus): Bus.findByIdAndUpdate, 404 when there is no such bus. *)
UpdateBus(id, status) ==
    /\ IF id \in DOMAIN buses
       THEN /\ buses' = [buses EXCEPT ![id] = status]
            /\ resp' = [op |-> "updateBus", code |-> 200, data |-> <<>>]
       ELSE /\ resp' = [op |-> "updateBus", code |-> 404, data |-> <<>>]
            /\ UNCHANGED buses
    /\ UNCHANGED <<indexes, now, ticks, store, nextId, reqs, acked, purged>>

(* DELETE /api/buses/:id (busController deleteBus): Bus.findByIdAndDelete,
   404 when there is no such bus.  The location updates of the bus are not
   touched. *)
DeleteBus(id) ==
    /\ IF id \in DOMAIN buses
       THEN /\ buses' = [b \in DOMAIN buses \ {id} |-> buses[b]]
            /\ resp' = [op |-> "deleteBus", busId |-> id, code |-> 200,
                        data |-> <<>>]
       ELSE /\ resp' = [op |-> "deleteBus", busId |-> id, code |-> 404,
                        data |-> <<>>]
            /\ UNCHANGED buses
    /\ UNCHANGED <<indexes, now, ticks, store, nextId, reqs, acked, purged>>

(* A bus query that forgot the filter on the status *)
ActiveBuses_All == DOMAIN buses

(* Bus.find({ status: 'active' }) *)
ActiveBuses == {b \in DOMAIN buses : buses[b] = "active"}

(* GET /all-buses: for each active bus the findOne sorted by descending
   timestamp, the buses it finds nothing for filtered out.  failed is the set
   of buses whose findOne the store rejects: one rejected lookup rejects
   Promise.all, and asyncHandler passes the error to next.  The result is
   kept as a set of entries: Bus.find is not sorted. *)
GetAllBusesLatestLocation(failed) ==
    /\ IF ActiveBuses \cap failed # {}
       THEN resp' = [op |-> "allBuses", code |-> 500, failed |-> failed,
                     data |-> {}]
       ELSE \E pick \in [{b \in ActiveBuses : getLatestLocation(b) # {}}
                           -> Samples] :
               /\ \A b \in DOMAIN pick : pick[b] \in getLatestLocation(b)
               /\ resp' = [op |-> "allBuses", code |-> 200, failed |-> failed,
                           data |-> {[busId |-> b,
                                      lastLocation |->
                                          Select(pick[b], HistoryFields)] :
                                     b \in DOMAIN pick}]
    /\ UNCHANGED <<indexes, now, ticks, buses, store, nextId, reqs, acked, purged>>

RECURSIVE SumSpeed(_)
SumSpeed(S) ==
    IF S = {} THEN 0
    ELSE LET s == CHOOSE x \in S : TRUE IN s.speed + SumSpeed(S \ {s})

(* The $group stage of getBusLocationStats over the documents S; the
   average is kept exact, as the sum and the count it divides. *)
GroupStats(S) ==
    [avgSpeed |-> [sum |-> SumSpeed(S), count |-> Cardinality(S)],
     maxSpeed |-> CHOOSE m \in {s.speed : s \in S} :
                     \A s \in S : s.speed <= m,
     minSpeed |-> CHOOSE m \in {s.speed : s \in S} :
                     \A s \in S : s.speed >= m,
     totalUpdates |-> Cardinality(S)]

(* GET /bus/:busId/stats  The $match stage is built by calling
   mongoose.Types.ObjectId(busId) without new.  What the call does depends on
   the installed Mongoose, which the source does not pin: where ObjectId is a
   function (bson before 5) it returns the id and the aggregation runs; where
   it is a class (bson 5 and later, Mongoose 7 and later) it throws a
   TypeError, which asyncHandler passes to next.  Both outcomes are kept. *)
GetBusLocationStats(busId) ==
    LET matched == {s \in Samples : s.busId = busId}
        stats == IF matched = {} THEN Nil ELSE GroupStats(matched)
    IN  /\ \/ IF getLatestLocation(busId) = {}
              THEN resp' = [op |-> "stats", busId |-> busId, code |-> 200,
                            stats |-> stats, data |-> <<>>]
              ELSE \E s \in getLatestLocation(busId) :
                      resp' = [op |-> "stats", busId |-> busId, code |-> 200,
                               stats |-> stats, data |-> <<s>>]
           \/ resp' = [op |-> "stats", busId |-> busId, code |-> 500,
                       stats |-> Nil, data |-> <<>>]
        /\ UNCHANGED <<indexes, now, ticks, buses, store, nextId, reqs, acked, purged>>

---------------------------------------------------------------------------
(* statics.calculateDistance: the haversine formula with R = 6371 km.  TLC
   has no trigonometry, so the formula is tabulated: each row is
   <<lat1, lng1, lat2, lng2, d>>, d being the value the source's expression
   gives in double arithmetic for those coordinates, in metres (rounded to the
   nearest metre), for every pair of coordinates a document or a query of the
   model can carry, and from the query point (0, 0) to every document and
   from both query points to the document at (6.9451, 79.8620). *)
HaversineMetres ==
    { <<0, 0, 69271, 798612, 8888476>>,
      <<0, 0, 69451, 798612, 8888519>>,
      <<0, 0, 69451, 798620, 8888607>>,
      <<69271, 798612, 69451, 798620, 2003>>,
      <<0, 0, 69721, 798612, 8888584>>,
      <<0, 0, 69991, 798612, 8888649>>,
      <<0, 0, 900000, 1800000, 10007543>>,
      <<0, 0, -900000, -1800000, 10007543>>,
      <<69271, 798612, 69271, 798612, 0>>,
      <<69271, 798612, 69451, 798612, 2002>>,
      <<69271, 798612, 69721, 798612, 5004>>,
      <<69271, 798612, 69991, 798612, 8006>>,
      <<69271, 798612, 900000, 1800000, 9237285>>,
      <<69271, 798612, -900000, -1800000, 10777802>>,
      <<69451, 798612, 69271, 798612, 2002>>,
      <<69451, 798612, 69451, 798612, 0>>,
      <<69451, 798612, 69721, 798612, 3002>>,
      <<69451, 798612, 69991, 798612, 6005>>,
      <<69451, 798612, 900000, 1800000, 9235284>>,
      <<69451, 798612, -900000, -1800000, 10779803>>,
      <<69721, 798612, 69271, 798612, 5004>>,
      <<69721, 798612, 69451, 798612, 3002>>,
      <<69721, 798612, 69721, 798612, 0>>,
      <<69721, 798612, 69991, 798612, 3002>>,
      <<69721, 798612, 900000, 1800000, 9232281>>,
      <<69721, 798612, -900000, -1800000, 10782806>>,
      <<69991, 798612, 69271, 798612, 8006>>,
      <<69991, 798612, 69451, 798612, 6005>>,
      <<69991, 798612, 69721, 798612, 3002>>,
      <<69991, 798612, 69991, 798612, 0>>,
      <<69991, 798612, 900000, 1800000, 9229279>>,
      <<69991, 798612, -900000, -1800000, 10785808>>,
      <<900000, 1800000, 69271, 798612, 9237285>>,
      <<900000, 1800000, 69451, 798612, 9235284>>,
      <<900000, 1800000, 69721, 798612, 9232281>>,
      <<900000, 1800000, 69991, 798612, 9229279>>,
      <<900000, 1800000, 900000, 1800000, 0>>,
      <<900000, 1800000, -900000, -1800000, 20015087>>,
      <<-900000, -1800000, 69271, 798612, 10777802>>,
      <<-900000, -1800000, 69451, 798612, 10779803>>,
      <<-900000, -1800000, 69721, 798612, 10782806>>,
      <<-900000, -1800000, 69991, 798612, 10785808>>,
      <<-900000, -1800000, 900000, 1800000, 20015087>>,
      <<-900000, -1800000, -900000, -1800000, 0>> }

calculateDistance(lat1, lng1, lat2, lng2) ==
    (CHOOSE r \in HaversineMetres :
        r[1] = lat1 /\ r[2] = lng1 /\ r[3] = lat2 /\ r[4] = lng2)[5]

(* distance.toFixed(2), read back by parseFloat: kilometres rounded to two
   decimals, that is metres rounded to the nearest ten. *)
toFixed2(d) == ((d + 5) \div 10) * 10

RECURSIVE SortByDistance_TiesReversed(_)
(* A sort that is not stable: an entry goes in front of the entries of equal
   distance that were scanned before it *)
SortByDistance_TiesReversed(q) ==
    IF q = <<>> THEN <<>>
    ELSE LET sorted == SortByDistance_TiesReversed(SubSeq(q, 1, Len(q) - 1))
             e == q[Len(q)]
             k == Cardinality({i \in DOMAIN sorted :
                                 sorted[i].distance < e.distance})
         IN  SubSeq(sorted, 1, k) \o <<e>> \o SubSeq(sorted, k + 1, Len(sorted))

RECURSIVE SortByDistance(_)
(* Array.prototype.sort((a, b) => a.distance - b.distance): stable *)
SortByDistance(q) ==
    IF q = <<>> THEN <<>>
    ELSE LET sorted == SortByDistance(SubSeq(q, 1, Len(q) - 1))
             e == q[Len(q)]
             k == Cardinality({i \in DOMAIN sorted :
                                 sorted[i].distance <= e.distance})
         IN  SubSeq(sorted, 1, k) \o <<e>> \o SubSeq(sorted, k + 1, Len(sorted))

DefaultRadius == 5

(* One entry of the nearby result.  The response carries the populated bus
   and the coordinates, speed and timestamp of the document; id is kept here
   to tell which document an entry comes from. *)
NearbyEntry(loc, latitude, longitude) ==
    [id |-> loc.id, busId |-> loc.busId, lat |-> loc.lat, lng |-> loc.lng,
     speed |-> loc.speed, timestamp |-> loc.timestamp,
     distance |-> toFixed2(calculateDistance(latitude, longitude,
                                             loc.lat, loc.lng))]

(* A radius filter that also drops the entries of buses that are not
   active *)
WithinRadius_ActiveOnly(item, radius) ==
    item.distance <= radius * 1000 /\ item.busId \in ActiveBuses

(* The radius filter of getNearbyBuses, on an entry; radius in kilometres *)
WithinRadius(item, radius) == item.distance <= radius * 1000

(* A proximity search that tests the parsed coordinates for truth, and so
   takes a coordinate equal to 0 for a missing one *)
GetNearbyBuses_NumericCheck(query) ==
    /\ IF \/ ~Has(query, "lat") \/ ~Has(query, "lng")
          \/ query.lat = 0 \/ query.lng = 0
       THEN resp' = [op |-> "nearby", query |-> query, code |-> 400,
                     data |-> <<>>]
       ELSE LET radius == ParseNumberOr(query, "radius", DefaultRadius)
                recentTime == now - TenMinutes
                locations == SelectSeq(store,
                                 LAMBDA s : s.timestamp >= recentTime)
                mapped == [i \in DOMAIN locations |->
                             NearbyEntry(locations[i], query.lat, query.lng)]
                nearbyBuses == SortByDistance(SelectSeq(mapped,
                                 LAMBDA item : WithinRadius(item, radius)))
            IN  resp' = [op |-> "nearby", query |-> query, code |-> 200,
                         radius |-> radius, data |-> nearbyBuses]
    /\ UNCHANGED <<indexes, now, ticks, buses, store, nextId, reqs, acked, purged>>

(* GET /nearby?lat=&lng=&radius=  lat and lng are the strings of the query:
   !lat holds of an absent parameter, not of the string "0". *)
GetNearbyBuses(query) ==
    /\ IF ~Has(query, "lat") \/ ~Has(query, "lng")
       THEN resp' = [op |-> "nearby", query |-> query, code |-> 400,
                     data |-> <<>>]
       ELSE LET radius == ParseNumberOr(query, "radius", DefaultRadius)
                recentTime == now - TenMinutes
                locations == SelectSeq(store,
                                 LAMBDA s : s.timestamp >= recentTime)
                mapped == [i \in DOMAIN locations |->
                             NearbyEntry(locations[i], query.lat, query.lng)]
                nearbyBuses == SortByDistance(SelectSeq(mapped,
                                 LAMBDA item : WithinRadius(item, radius)))
            IN  resp' = [op |-> "nearby", query |-> query, code |-> 200,
                         radius |-> radius, data |-> nearbyBuses]
    /\ UNCHANGED <<indexes, now, ticks, buses, store, nextId, reqs, acked, purged>>

DefaultDays == 30

(* A purge whose filter takes in the cutoff itself ($lte) *)
CleanupOldLocations_Lte(query) ==
    LET days == ParseNumberOr(query, "days", DefaultDays)
        cutoffDate == now - days * OneDay
        kept == SelectSeq(store, LAMBDA s : ~(s.timestamp <= cutoffDate))
    IN  /\ store' = kept
        /\ purged' = purged \cup {s.id : s \in Range(store) \ Range(kept)}
        /\ resp' = [op |-> "cleanup", query |-> query, code |-> 200,
                     deletedCount |-> Len(store) - Len(kept),
                     cutoffDate |-> cutoffDate, data |-> <<>>]
        /\ UNCHANGED <<indexes, now, ticks, buses, nextId, reqs, acked>>

(* A purge that deletes one document a call (deleteOne): the oldest stored
   of those before the cutoff *)
CleanupOldLocations_DeleteOne(query) ==
    LET days == ParseNumberOr(query, "days", DefaultDays)
        cutoffDate == now - days * OneDay
        old == {i \in DOMAIN store : store[i].timestamp < cutoffDate}
        first == IF old = {} THEN 0
                 ELSE CHOOSE i \in old : \A j \in old : i <= j
        kept == [i \in 1..(Len(store) - (IF old = {} THEN 0 ELSE 1)) |->
                    IF first = 0 \/ i < first THEN store[i] ELSE store[i + 1]]
    IN  /\ store' = kept
        /\ purged' = purged \cup {s.id : s \in Range(store) \ Range(kept)}
        /\ resp' = [op |-> "cleanup", query |-> query, code |-> 200,
                     deletedCount |-> Len(store) - Len(kept),
                     cutoffDate |-> cutoffDate, data |-> <<>>]
        /\ UNCHANGED <<indexes, now, ticks, buses, nextId, reqs, acked>>

(* DELETE /cleanup?days=: protect, restrictTo('admin'), then
   cleanupOldLocations *)
DeleteCleanup(auth, query) ==
    LET days == ParseNumberOr(query, "days", DefaultDays)
        cutoffDate == now - days * OneDay
        kept == SelectSeq(store, LAMBDA s : ~(s.timestamp < cutoffDate))
    IN  /\ IF Guard({"admin"}, auth) # 0
           THEN /\ resp' = [op |-> "cleanup", query |-> query,
                            code |-> Guard({"admin"}, auth), auth |-> auth,
                            data |-> <<>>]
                /\ UNCHANGED <<store, purged>>
           ELSE /\ store' = kept
                /\ purged' = purged \cup
                                 {s.id : s \in Range(store) \ Range(kept)}
                /\ resp' = [op |-> "cleanup", query |-> query, code |-> 200,
                            auth |-> auth,
                            deletedCount |-> Len(store) - Len(kept),
                            cutoffDate |-> cutoffDate, data |-> <<>>]
        /\ UNCHANGED <<indexes, now, ticks, buses, nextId, reqs, acked>>

(* DELETE /cleanup?days= sent by an administrator who is logged in *)
CleanupOldLocations(query) == DeleteCleanup(AdminAuth, query)

(* The TTL index on timestamp (expireAfterSeconds: 30 days): where the
   collection has it, the store's background sweep deletes the documents
   whose age exceeds it.  It answers no request. *)
TTLExpire ==
    LET kept == SelectSeq(store, LAMBDA s :
                    ~(\E ix \in TTLIndexes :
                        s.timestamp < now - ix.expireAfterSeconds))
    IN  /\ kept # store
        /\ store' = kept
        /\ purged' = purged \cup {s.id : s \in Range(store) \ Range(kept)}
        /\ resp' = NoResp
        /\ UNCHANGED <<indexes, now, ticks, buses, nextId, reqs, acked>>

---------------------------------------------------------------------------
(* The read routes with a parameter, as locationRoutes.js mounts them:
   validate(idParamSchema), then the handler *)

InvalidParams(op, params) ==
    /\ resp' = [op |-> op, params |-> params, code |-> 400, data |-> <<>>]
    /\ UNCHANGED <<indexes, now, ticks, buses, store, nextId, reqs, acked,
                   purged>>

(* GET /bus/:busId/latest *)
GetBusLatest(params) ==
    IF validateParams(params) THEN GetLatestLocation(params.busId)
    ELSE InvalidParams("latest", params)

(* GET /bus/:busId/history *)
GetBusHistory(params, query) ==
    IF validateParams(params) THEN GetLocationHistory(params.busId, query)
    ELSE InvalidParams("history", params)

(* GET /bus/:busId/stats *)
GetBusStats(params) ==
    IF validateParams(params) THEN GetBusLocationStats(params.busId)
    ELSE InvalidParams("stats", params)

(* GET /trip/:tripId *)
GetTrip(params) ==
    IF validateParams(params) THEN GetLocationsByTrip(params.tripId)
    ELSE InvalidParams("byTrip", params)

---------------------------------------------------------------------------
(* The global error handler (middleware/errorHandler.js) *)

(* process.env.NODE_ENV of the process that handles the error *)
Envs == {"development", "production", "test", "unset"}

(* errorHandler(err, req, res, next) on the error the last step passed to
   next: sendErrorDev in development, sendErrorProd in production (both with
   the status of the error: every error of this API that is not an ApiError
   has none and gets 500, which is its code here), and no branch for any
   other NODE_ENV.  handled tells that the handler has returned, sent whether
   it has sent the response. *)
ErrorHandler(env) ==
    /\ resp.code >= 400
    /\ ~Has(resp, "handled")
    /\ resp' = [k \in DOMAIN resp \cup {"handled", "sent", "env"} |->
                   CASE k = "handled" -> TRUE
                     [] k = "sent" -> env \in {"development", "production"}
                     [] k = "env" -> env
                     [] OTHER -> resp[k]]
    /\ UNCHANGED <<indexes, now, ticks, buses, store, nextId, reqs, acked,
                   purged>>

---------------------------------------------------------------------------
(* Inputs of the model *)

QueryBodies ==
    { [busId |-> "b1", tripId |-> "t1", lat |-> Lat2km, lng |-> QLng,
       speed |-> 40, heading |-> 90, accuracy |-> 5],
      [busId |-> "b1", lat |-> Lat5km, lng |-> QLng],
      [busId |-> "b2", lat |-> Lat8km, lng |-> QLng, speed |-> 3,
       heading |-> 360, accuracy |-> 0] }

ApiBodies == {b \in QueryBodies : b.busId = "b1"}

(* The bodies of the proximity searches: two of them are 2.0015 km and
   2.0035 km from the query point, 2.00 km both once rounded *)
NearbyBodies ==
    QueryBodies \cup
    { [busId |-> "b2", lat |-> Lat2km, lng |-> Lng2km, speed |-> 20] }

LatestBuses == {"b1", "b2"}

HistoryQueries ==
    { [busId |-> "b1"],
      [busId |-> "b1", limit |-> 1],
      [busId |-> "b1", limit |-> 0],
      [busId |-> "b1", limit |-> -1],
      [busId |-> "b1", startTime |-> 1, endTime |-> 1],
      [busId |-> "b1", startTime |-> 1],
      [busId |-> "b1", endTime |-> 1],
      [busId |-> "b2"] }

(* Bodies for the trip queries: of trip t1, of t2, which is no trip, and of
   no trip at all *)
TripBodies ==
    { [busId |-> "b1", tripId |-> "t1", lat |-> Lat2km, lng |-> QLng,
       speed |-> 40],
      [busId |-> "b1", tripId |-> "t2", lat |-> Lat5km, lng |-> QLng,
       speed |-> 30],
      [busId |-> "b1", lat |-> Lat8km, lng |-> QLng, speed |-> 4] }

(* The queries of DELETE /cleanup: no parameter, and days = 1, 0 and -1 *)
PurgeQueries ==
    { <<>>, [days |-> 1], [days |-> 0], [days |-> -1] }

NearbyQueries ==
    { [lat |-> QLat, lng |-> QLng],
      [lat |-> QLat, lng |-> QLng, radius |-> 2],
      [lat |-> QLat, lng |-> QLng, radius |-> 0],
      [lat |-> QLat, lng |-> QLng, radius |-> -1],
      [lat |-> 0, lng |-> 0],
      [lng |-> QLng] }

---------------------------------------------------------------------------
(* The whole location API: two clients ingesting concurrently, every read
   operation and the purge, on the bodies of QueryBodies. *)
Next ==
    \/ Tick(TTLSeconds)
    \/ \E c \in Clients, body \in ApiBodies : Submit(c, body)
    \/ \E c \in Clients : FindBus(c)
    \/ \E c \in Clients : Create(c)
    \/ \E c \in Clients : Respond(c)
    \/ \E busId \in LatestBuses : GetLatestLocation(busId)
    \/ GetLocationHistory("b1", [busId |-> "b1"])
    \/ GetNearbyBuses([lat |-> QLat, lng |-> QLng])
    \/ GetLocationsByTrip("t1")
    \/ GetAllBusesLatestLocation({})
    \/ GetBusLocationStats("b1")
    \/ CleanupOldLocations([days |-> 1])
    \/ TTLExpire

Spec == InitAnyDatabase /\ [][Next]_vars

(* The ingestion path alone, on every body of the model *)
NextIngest ==
    \/ Tick(1)
    \/ \E c \in Clients, body \in Bodies : Submit(c, body)
    \/ \E c \in Clients : FindBus(c)
    \/ \E c \in Clients : Create(c)
    \/ \E c \in Clients : Respond(c)

SpecIngest == Init /\ [][NextIngest]_vars

(* One client ingesting, and the history queries of HistoryQueries *)
NextHistory ==
    \/ \E d \in {1, OneDay} : Tick(d)
    \/ \E body \in QueryBodies : Submit("c1", body)
    \/ FindBus("c1")
    \/ Create("c1")
    \/ Respond("c1")
    \/ \E q \in HistoryQueries : GetLocationHistory(q.busId, q)

SpecHistory == Init /\ [][NextHistory]_vars

(* One client ingesting, and the proximity searches of NearbyQueries *)
NextNearby ==
    \/ \E d \in {1, TenMinutes} : Tick(d)
    \/ \E body \in NearbyBodies : Submit("c1", body)
    \/ FindBus("c1")
    \/ Create("c1")
    \/ Respond("c1")
    \/ \E q \in NearbyQueries : GetNearbyBuses(q)

SpecNearby == Init /\ [][NextNearby]_vars

(* One client ingesting, an administrator changing the status of the buses,
   and the fleet snapshot taken while the store rejects the lookups of some
   buses (of none, most of the time) *)
NextFleet ==
    \/ Tick(1)
    \/ \E body \in QueryBodies : Submit("c1", body)
    \/ FindBus("c1")
    \/ Create("c1")
    \/ Respond("c1")
    \/ \E b \in LatestBuses, st \in {"active", "inactive"} : UpdateBus(b, st)
    \/ \E failed \in SUBSET LatestBuses : GetAllBusesLatestLocation(failed)

SpecFleet == Init /\ [][NextFleet]_vars

(* Two clients ingesting, and the purges of PurgeQueries, while the clock
   advances by thirty days at a time *)
NextPurge ==
    \/ Tick(TTLSeconds)
    \/ \E c \in Clients, body \in ApiBodies : Submit(c, body)
    \/ \E c \in Clients : FindBus(c)
    \/ \E c \in Clients : Create(c)
    \/ \E c \in Clients : Respond(c)
    \/ \E q \in PurgeQueries : CleanupOldLocations(q)

SpecPurge == Init /\ [][NextPurge]_vars

(* One client ingesting the bodies of TripBodies, and the trip queries *)
NextTrip ==
    \/ Tick(1)
    \/ \E body \in TripBodies : Submit("c1", body)
    \/ FindBus("c1")
    \/ Create("c1")
    \/ Respond("c1")
    \/ \E tripId \in {"t1", "t2"} : GetLocationsByTrip(tripId)

SpecTrip == Init /\ [][NextTrip]_vars

(* The two routes behind protect, called with every kind of credentials, a
   valid and an invalid body, and two purge queries *)
NextAuth ==
    \/ Tick(TTLSeconds)
    \/ \E auth \in AuthInputs,
          body \in {[busId |-> "b1", lat |-> Lat2km, lng |-> QLng],
                    [busId |-> "b1", lat |-> Lat2km, lng |-> QLng,
                     speed |-> 121]} :
          PostLocation("c1", auth, body)
    \/ FindBus("c1")
    \/ Create("c1")
    \/ Respond("c1")
    \/ \E auth \in AuthInputs, q \in {<<>>, [days |-> 1]} :
          DeleteCleanup(auth, q)

SpecAuth == Init /\ [][NextAuth]_vars

(* Ingestion by two clients while buses are deleted *)
NextDelete ==
    \/ Tick(1)
    \/ \E c \in Clients, body \in ApiBodies : Submit(c, body)
    \/ \E c \in Clients : FindBus(c)
    \/ \E c \in Clients : Create(c)
    \/ \E c \in Clients : Respond(c)
    \/ \E id \in LatestBuses : DeleteBus(id)

SpecDelete == Init /\ [][NextDelete]_vars

(* Requests that raise errors, and the global error handler *)
NextErrors ==
    \/ Tick(1)
    \/ \E body \in Bodies : Submit("c1", body)
    \/ FindBus("c1")
    \/ Create("c1")
    \/ Respond("c1")
    \/ \E busId \in LatestBuses : GetLatestLocation(busId)
    \/ GetNearbyBuses([lng |-> QLng])
    \/ GetBusLocationStats("b1")
    \/ \E env \in Envs : ErrorHandler(env)

SpecErrors == Init /\ [][NextErrors]_vars

(* req.params of the routes with one parameter called name: a well-formed id
   of a document, a well-formed id of none, and a malformed id *)
RouteParams(name) == {[k \in {name} |-> v] : v \in {"b1", "t1", "b9", "zz"}}

(* The four read routes as they are mounted, with ingestion *)
NextRoutes ==
    \/ Tick(1)
    \/ \E body \in TripBodies : Submit("c1", body)
    \/ FindBus("c1")
    \/ Create("c1")
    \/ Respond("c1")
    \/ \E params \in RouteParams("busId") : GetBusLatest(params)
    \/ \E params \in RouteParams("busId") : GetBusHistory(params, <<>>)
    \/ \E params \in RouteParams("busId") : GetBusStats(params)
    \/ \E params \in RouteParams("tripId") : GetTrip(params)

SpecRoutes == Init /\ [][NextRoutes]_vars

(* Ingestion, the clock and the retention rule.  The TTL monitor of the
   database runs every minute for as long as the database runs, so the sweep
   is taken whenever it stays enabled. *)
NextRetention ==
    \/ Tick(TTLSeconds)
    \/ \E c \in Clients, body \in ApiBodies : Submit(c, body)
    \/ \E c \in Clients : FindBus(c)
    \/ \E c \in Clients : Create(c)
    \/ \E c \in Clients : Respond(c)
    \/ TTLExpire

SpecRetention == InitAnyDatabase /\ [][NextRetention]_vars /\ WF_vars(TTLExpire)

---------------------------------------------------------------------------
(* Properties *)

StatusBySpeed(s) ==
    /\ s.speed = 0 => s.status = "stopped"
    /\ (s.speed > 0 /\ s.speed < 5) => s.status = "idle"
    /\ s.speed >= 5 => s.status = "moving"

(* C1: every stored sample's motion status follows from its stored speed
   alone (0 stopped, below 5 idle, 5 and above moving); a sample ingested
   without a speed is stored with speed 0 and is stopped; no request that
   carries a status of its own gets as far as the controller. *)
C1_StatusFromSpeed ==
    /\ \A s \in Samples : StatusBySpeed(s)
    /\ \A c \in Clients :
          /\ reqs[c].pc = "respond" =>
                /\ StatusBySpeed(reqs[c].doc)
                /\ ~Has(reqs[c].body, "speed") =>
                      reqs[c].doc.speed = 0 /\ reqs[c].doc.status = "stopped"
                /\ Has(reqs[c].body, "speed") =>
                      reqs[c].doc.speed = reqs[c].body.speed
          /\ reqs[c].pc # "idle" => ~Has(reqs[c].body, "status")

C1_Witness ==
    /\ \E s \in Samples : s.speed = 5 /\ s.status = "moving"
    /\ \E c \in Clients :
          /\ reqs[c].pc = "respond"
          /\ ~Has(reqs[c].body, "speed")
          /\ reqs[c].doc.status = "stopped"

Resolves(busId) == busId \in DOMAIN buses

(* C3, as stated: every ingestion whose vehicleId does not resolve is
   answered NotFound (404). *)
C3_Original ==
    (resp.op = "create" /\ Has(resp.body, "busId")
        /\ ~Resolves(resp.body.busId)) => resp.code = 404

(* C3, amended: an ingestion that passes the body validation and whose
   vehicleId does not resolve is answered NotFound and never reaches the
   insert; no stored sample names a vehicle that does not exist (a body that
   also fails the validation is answered InvalidInput first). *)
C3_UnknownVehicle ==
    /\ (resp.op = "create" /\ validate(resp.body)
          /\ ~Resolves(resp.body.busId)) => resp.code = 404
    /\ \A c \in Clients :
          reqs[c].pc \in {"create", "respond"} => Resolves(reqs[c].body.busId)
    /\ \A s \in Samples : Resolves(s.busId)

C3_Witness ==
    /\ resp.op = "create"
    /\ resp.code = 404
    /\ resp.body.busId = "b9"
    /\ store = <<>>

(* The declared bounds of the numeric fields, the heading's upper bound
   being a parameter: TRUE when the field is absent. *)
LatOk(r) == Has(r, "lat") => (r.lat >= -900000 /\ r.lat <= 900000)
LngOk(r) == Has(r, "lng") => (r.lng >= -1800000 /\ r.lng <= 1800000)
SpeedOk(r) == Has(r, "speed") => (r.speed >= 0 /\ r.speed <= 120)
AccuracyOk(r) == Has(r, "accuracy") => r.accuracy >= 0
HeadingBelow(r, top) == Has(r, "heading") => (r.heading >= 0 /\ r.heading < top)

FieldsOk(r, top) ==
    LatOk(r) /\ LngOk(r) /\ SpeedOk(r) /\ AccuracyOk(r) /\ HeadingBelow(r, top)

(* C4, as stated: an ingestion with lat, lng, speed or accuracy out of
   bounds or heading outside [0, 360) is answered InvalidInput (400), and
   every stored sample has its heading in [0, 360). *)
C4_Original ==
    /\ (resp.op = "create" /\ ~FieldsOk(resp.body, 360)) => resp.code = 400
    /\ \A s \in Samples : FieldsOk(s, 360)

(* C4, amended: an ingestion with lat outside [-90, 90], lng outside
   [-180, 180], speed outside [0, 120], heading outside [0, 360] (360 itself
   is accepted) or a negative accuracy is answered InvalidInput and never
   reaches the controller; every stored sample has these fields within those
   bounds. *)
C4_OutOfRangeRejected ==
    /\ (resp.op = "create" /\ ~FieldsOk(resp.body, 361)) => resp.code = 400
    /\ \A c \in Clients : reqs[c].pc # "idle" => FieldsOk(reqs[c].body, 361)
    /\ \A s \in Samples : FieldsOk(s, 361)

C4_Witness ==
    /\ resp.op = "create"
    /\ resp.code = 400
    /\ Has(resp.body, "heading") /\ resp.body.heading = 361
    /\ \E s \in Samples : Has(s, "heading") /\ s.heading = 360

(* C5: a successful ingestion stores the timestamp the caller provided when
   there is one. *)
C5_ProvidedTimestampStored ==
    (resp.op = "create" /\ resp.code = 201 /\ Has(resp.body, "timestamp"))
        => resp.data[1].timestamp = resp.body.timestamp
ReadOps == {"latest", "history", "byTrip", "nearby", "allBuses", "stats"}

(* C2: the store changes only by the insert of an ingestion, which appends
   exactly one sample after the stored ones, and by a purge (the cleanup
   request, or the TTL sweep of samples older than 30 days), which removes
   samples and keeps the others in place; every read operation leaves the
   store as it is, and a sample that stays stored keeps every field. *)
C2_StoreFrame ==
    [][ /\ store' # store =>
              \/ /\ \E c \in Clients :
                        reqs[c].pc = "create" /\ reqs'[c].pc = "respond"
                 /\ Len(store') = Len(store) + 1
                 /\ SubSeq(store', 1, Len(store)) = store
                 /\ \A i \in DOMAIN store : store[i].id # store'[Len(store')].id
              \/ /\ \/ resp'.op = "cleanup"
                    \/ /\ resp'.op = "none"
                       /\ \A s \in Range(store) \ Range(store') :
                             s.timestamp < now - 2592000
                 /\ Len(store') < Len(store)
                 /\ store' = SelectSeq(store, LAMBDA s : s \in Range(store'))
        /\ resp'.op \in ReadOps => store' = store
        /\ \A s \in Range(store), t \in Range(store') : s.id = t.id => s = t
      ]_vars

C2_Witness ==
    /\ resp.op = "cleanup"
    /\ resp.deletedCount = 1
    /\ Len(store) = 1
SamplesOfBus(busId) == {s \in Samples : s.busId = busId}

IsNewestOf(d, busId) ==
    /\ d \in SamplesOfBus(busId)
    /\ \A t \in SamplesOfBus(busId) : t.timestamp <= d.timestamp

(* C6, as stated: latest(vehicleId) returns a sample of the vehicle with the
   maximum timestamp, and an outcome that is not an error when the vehicle has
   no stored sample. *)
C6_Original ==
    resp.op = "latest" =>
        IF SamplesOfBus(resp.busId) = {}
        THEN resp.code < 400
        ELSE resp.code = 200 /\ IsNewestOf(resp.data[1], resp.busId)

(* C6, amended: latest(vehicleId) returns a sample of the vehicle whose
   timestamp is the maximum over the vehicle's stored samples; when the
   vehicle has no stored sample the request is answered NotFound (404),
   with no sample. *)
C6_Latest ==
    resp.op = "latest" =>
        IF SamplesOfBus(resp.busId) = {}
        THEN resp.code = 404 /\ resp.data = <<>>
        ELSE resp.code = 200 /\ IsNewestOf(resp.data[1], resp.busId)

C6_Witness ==
    /\ resp.op = "latest"
    /\ resp.code = 200
    /\ \E t \in SamplesOfBus(resp.busId) :
          t.timestamp < resp.data[1].timestamp /\ t.id > resp.data[1].id

SameReport(a, b) == a.lat = b.lat /\ a.lng = b.lng /\ a.status = b.status

HistoryIds == {resp.data[i].id : i \in DOMAIN resp.data}

(* C7, as stated: a latest or history query made after an ingestion of the
   vehicle was answered 201 observes the sample, unless it was purged: latest
   returns a sample at least as new, one with the ingested coordinates and
   status when no stored sample of the vehicle has a later timestamp; history
   holds the sample when its timestamp lies in the window. *)
C7_Original ==
    \A d \in {a \in acked : a.id \notin purged} :
        /\ (resp.op = "latest" /\ resp.busId = d.busId) =>
              /\ resp.code = 200
              /\ resp.data[1].timestamp >= d.timestamp
              /\ (\A t \in SamplesOfBus(d.busId) : t.timestamp <= d.timestamp)
                    => SameReport(resp.data[1], d)
        /\ (resp.op = "history" /\ resp.busId = d.busId
              /\ resp.startTime <= d.timestamp /\ d.timestamp <= resp.endTime)
             => d.id \in HistoryIds

(* C7, amended: as C7, latest returning the ingested coordinates and status
   when every other stored sample of the vehicle has an earlier timestamp
   (of two samples with the same timestamp latest may return either). *)
C7_ReadAfterWrite ==
    \A d \in {a \in acked : a.id \notin purged} :
        /\ (resp.op = "latest" /\ resp.busId = d.busId) =>
              /\ resp.code = 200
              /\ resp.data[1].timestamp >= d.timestamp
              /\ (\A t \in SamplesOfBus(d.busId) :
                     t.id # d.id => t.timestamp < d.timestamp)
                    => SameReport(resp.data[1], d)
        /\ (resp.op = "history" /\ resp.busId = d.busId
              /\ resp.startTime <= d.timestamp /\ d.timestamp <= resp.endTime)
             => d.id \in HistoryIds

C7_Witness ==
    /\ resp.op = "latest"
    /\ resp.code = 200
    /\ InFlight # {}
    /\ \E d \in acked :
          /\ d.busId = resp.busId
          /\ resp.data[1].id = d.id
          /\ \E t \in SamplesOfBus(d.busId) : t.timestamp < d.timestamp
IsProjectionOf(item, s) ==
    /\ item.id = s.id
    /\ item.lat = s.lat /\ item.lng = s.lng /\ item.speed = s.speed
    /\ item.timestamp = s.timestamp /\ item.status = s.status

(* C8: before truncation, history(vehicleId, startTime, endTime) is exactly
   the stored samples of the vehicle with startTime <= timestamp <= endTime,
   each once, in ascending timestamp order; an omitted startTime is
   now - 24h and an omitted endTime is now. *)
C8_HistoryWindow ==
    resp.op = "history" =>
        LET lo == IF Has(resp.query, "startTime") THEN resp.query.startTime
                  ELSE now - 86400
            hi == IF Has(resp.query, "endTime") THEN resp.query.endTime
                  ELSE now
            inWindow == {s \in Samples :
                           /\ s.busId = resp.busId
                           /\ lo <= s.timestamp /\ s.timestamp <= hi}
            w == resp.window
        IN  /\ resp.code = 200
            /\ resp.startTime = lo /\ resp.endTime = hi
            /\ Len(w) = Cardinality(inWindow)
            /\ \A s \in inWindow : \E i \in DOMAIN w : IsProjectionOf(w[i], s)
            /\ \A i \in DOMAIN w : \E s \in inWindow : IsProjectionOf(w[i], s)
            /\ \A i, j \in DOMAIN w : i < j => w[i].timestamp <= w[j].timestamp

C8_Witness ==
    /\ resp.op = "history"
    /\ Has(resp.query, "startTime") /\ Has(resp.query, "endTime")
    /\ Len(resp.window) = 1
    /\ resp.window[1].timestamp = resp.query.startTime
    /\ resp.window[1].timestamp = resp.query.endTime
    /\ Cardinality(SamplesOfBus(resp.busId)) = 2

Min(a, b) == IF a < b THEN a ELSE b

(* C9: history returns the first k samples of the ascending window, k the
   smaller of the window's size and the effective limit: the supplied limit
   when it is at least 1, 100 when it is omitted, 1 when it is zero or
   negative. *)
C9_LimitKeepsEarliest ==
    resp.op = "history" =>
        LET L == IF ~Has(resp.query, "limit") THEN 100
                 ELSE IF resp.query.limit >= 1 THEN resp.query.limit
                 ELSE 1
        IN  resp.data = SubSeq(resp.window, 1, Min(L, Len(resp.window)))

(* C10: proximity search returns a stored sample exactly when its timestamp
   is at least now - 10 minutes and its computed distance from the query
   point, before any rounding, is at most the radius. *)
C10_NearbyExact ==
    (resp.op = "nearby" /\ resp.code = 200) =>
        \A s \in Samples :
            (\E i \in DOMAIN resp.data : resp.data[i].id = s.id)
            <=> /\ s.timestamp >= now - 600
                /\ calculateDistance(resp.query.lat, resp.query.lng,
                                     s.lat, s.lng) <= resp.radius * 1000

(* The distance from the query point of the last response to an entry of
   its result, as calculateDistance computes it *)
TrueDistance(e) ==
    calculateDistance(resp.query.lat, resp.query.lng, e.lat, e.lng)

(* C11, as stated: the list a proximity search returns is in ascending order
   of the distance of its entries from the query point, and entries at the
   same distance stand in the order the scan met them. *)
C11_Original ==
    (resp.op = "nearby" /\ resp.code = 200) =>
        \A i, j \in DOMAIN resp.data :
            i < j => /\ TrueDistance(resp.data[i]) <= TrueDistance(resp.data[j])
                     /\ TrueDistance(resp.data[i]) = TrueDistance(resp.data[j])
                           => resp.data[i].id < resp.data[j].id

(* C11, amended: the list a proximity search returns is in ascending order
   of the distance each entry reports (the computed distance rounded to two
   decimals), and entries that report the same distance stand in the order
   the scan met them (the order of insertion), whichever is the nearer. *)
C11_NearestFirst ==
    (resp.op = "nearby" /\ resp.code = 200) =>
        \A i, j \in DOMAIN resp.data :
            i < j => /\ resp.data[i].distance <= resp.data[j].distance
                     /\ resp.data[i].distance = resp.data[j].distance
                           => resp.data[i].id < resp.data[j].id

C11_Witness ==
    /\ resp.op = "nearby"
    /\ resp.code = 200
    /\ Len(resp.data) = 2
    /\ resp.data[1].id < resp.data[2].id
    /\ resp.data[1].distance = resp.data[2].distance
    /\ TrueDistance(resp.data[1]) > TrueDistance(resp.data[2])

(* C12: a proximity search uses the radius 5 when the radius parameter is
   omitted, zero or negative, and the supplied radius otherwise. *)
C12_RadiusDefault ==
    (resp.op = "nearby" /\ resp.code = 200) =>
        resp.radius = IF Has(resp.query, "radius") /\ resp.query.radius > 0
                      THEN resp.query.radius
                      ELSE 5

(* C13: a proximity search is answered InvalidInput (400) exactly when lat
   or lng is absent from the query, and 200 otherwise; a coordinate equal to
   0 is a coordinate. *)
C13_MissingCoordinate ==
    resp.op = "nearby" =>
        IF Has(resp.query, "lat") /\ Has(resp.query, "lng")
        THEN resp.code = 200
        ELSE resp.code = 400 /\ resp.data = <<>>

C13_Witness ==
    /\ resp.op = "nearby"
    /\ Has(resp.query, "lat") /\ resp.query.lat = 0
    /\ Has(resp.query, "lng") /\ resp.query.lng = 0
    /\ resp.code = 200
    /\ store # <<>>

(* C14: the fleet snapshot, when it is returned, holds exactly one entry for
   each bus whose status is active and that has a stored sample, the entry's
   lastLocation being a sample of that bus with the maximum timestamp; it
   holds no entry for a bus that is not active and none without a location.
   It is returned whenever no lookup of an active bus fails. *)
C14_FleetSnapshot ==
    resp.op = "allBuses" =>
        LET withData == {b \in DOMAIN buses :
                            buses[b] = "active" /\ SamplesOfBus(b) # {}}
        IN  /\ (\A b \in resp.failed : buses[b] # "active") => resp.code = 200
            /\ resp.code = 200 =>
                  /\ {e.busId : e \in resp.data} = withData
                  /\ Cardinality(resp.data) = Cardinality(withData)
                  /\ \A e \in resp.data :
                        \E s \in SamplesOfBus(e.busId) :
                            /\ IsNewestOf(s, e.busId)
                            /\ IsProjectionOf(e.lastLocation, s)

C14_Witness ==
    /\ resp.op = "allBuses"
    /\ resp.code = 200
    /\ Cardinality(resp.data) = 2
    /\ \A b \in DOMAIN buses : buses[b] = "active"

(* C15: when the lookup of one bus fails during the fleet snapshot, the
   snapshot is still answered 200, with an entry for every other active bus
   that has a stored sample. *)
C15_PartialFailure ==
    resp.op = "allBuses" =>
        /\ resp.code = 200
        /\ {b \in DOMAIN buses : /\ buses[b] = "active"
                                  /\ SamplesOfBus(b) # {}
                                  /\ b \notin resp.failed}
              \subseteq {e.busId : e \in resp.data}

(* C16: stats(vehicleId) is answered 200 with the aggregate over exactly the
   stored samples of the vehicle: their number, their largest and smallest
   speed, and an average between the two; with a null stats object when the
   vehicle has no sample; and in both cases with the vehicle's latest sample
   (none when it has no sample). *)
C16_Stats ==
    resp.op = "stats" =>
        LET S == SamplesOfBus(resp.busId)
        IN  /\ resp.code = 200
            /\ IF S = {}
               THEN resp.stats = Nil /\ resp.data = <<>>
               ELSE /\ resp.stats.totalUpdates = Cardinality(S)
                    /\ \A s \in S : /\ s.speed <= resp.stats.maxSpeed
                                     /\ s.speed >= resp.stats.minSpeed
                    /\ \E s \in S : s.speed = resp.stats.maxSpeed
                    /\ \E s \in S : s.speed = resp.stats.minSpeed
                    /\ resp.stats.avgSpeed.count = Cardinality(S)
                    /\ resp.stats.minSpeed * resp.stats.avgSpeed.count
                          <= resp.stats.avgSpeed.sum
                    /\ resp.stats.avgSpeed.sum
                          <= resp.stats.maxSpeed * resp.stats.avgSpeed.count
                    /\ Len(resp.data) = 1
                    /\ IsNewestOf(resp.data[1], resp.busId)

(* C17, as stated: a purge removes exactly the stored samples with
   timestamp < now - days * 24h, days being 30 when the parameter is omitted
   and the supplied value otherwise, keeps the others as they are and in
   place, and reports the number of samples it removed. *)
C17_Original ==
    [][ resp'.op = "cleanup" =>
          LET days == IF Has(resp'.query, "days") THEN resp'.query.days ELSE 30
              cutoff == now - days * 86400
          IN  /\ store' = SelectSeq(store, LAMBDA s : s.timestamp >= cutoff)
              /\ resp'.deletedCount = Len(store) - Len(store')
              /\ resp'.code = 200
      ]_vars

(* C17, amended: as C17, days being 30 when the parameter is omitted or
   zero. *)
C17_PurgeExact ==
    [][ resp'.op = "cleanup" =>
          LET days == IF Has(resp'.query, "days") /\ resp'.query.days # 0
                      THEN resp'.query.days ELSE 30
              cutoff == now - days * 86400
          IN  /\ store' = SelectSeq(store, LAMBDA s : s.timestamp >= cutoff)
              /\ resp'.deletedCount = Len(store) - Len(store')
              /\ resp'.code = 200
      ]_vars

C17_Witness ==
    /\ resp.op = "cleanup"
    /\ ~Has(resp.query, "days")
    /\ resp.deletedCount = 1
    /\ Len(store) = 1
    /\ store[1].timestamp >= resp.cutoffDate

(* C18: right after a purge no stored sample lies before its cutoff, and a
   purge that directly follows a purge with the same cutoff removes nothing,
   reports 0 and leaves the store as the first left it. *)
C18_Idempotent ==
    /\ [](resp.op = "cleanup" =>
             \A s \in Samples : s.timestamp >= resp.cutoffDate)
    /\ [][ (/\ resp.op = "cleanup" /\ resp'.op = "cleanup"
            /\ resp'.cutoffDate = resp.cutoffDate)
              => (resp'.deletedCount = 0 /\ store' = store) ]_vars

C18_Witness ==
    /\ resp.op = "cleanup"
    /\ resp.deletedCount = 0
    /\ purged # {}
    /\ store # <<>>

(* C19: a sample whose ingestion was answered 201 and whose timestamp is the
   current time has not been removed by a purge, whether the purge ran before
   or after the answer. *)
C19_PurgeSparesFresh ==
    \A d \in acked : d.timestamp = now => d.id \notin purged

(* The _ids of the samples the last response carries *)
ResultIds ==
    IF resp.op = "allBuses" THEN {e.lastLocation.id : e \in resp.data}
    ELSE IF resp.op \in ReadOps THEN {resp.data[i].id : i \in DOMAIN resp.data}
    ELSE {}

(* C20: no query result carries a sample that a purge has deleted, and once
   a purge has left a vehicle with no sample, latest, history and stats for
   that vehicle are answered 200 with an empty result (no sample, and null
   stats), not with an error. *)
C20_AfterPurge ==
    resp.op \in ReadOps =>
        /\ ResultIds \cap purged = {}
        /\ (/\ purged # {}
            /\ resp.op \in {"latest", "history", "stats"}
            /\ SamplesOfBus(resp.busId) = {})
              => /\ resp.code = 200
                 /\ resp.data = <<>>
                 /\ resp.op = "stats" => resp.stats = Nil

(* The sample an ingestion of body stores, but for its _id and timestamp *)
ReportOf(body) ==
    [k \in ((DOMAIN body \cap {"busId", "tripId", "lat", "lng", "heading",
                                "accuracy"}) \cup {"speed", "status"}) |->
        CASE k = "speed" -> (IF Has(body, "speed") THEN body.speed ELSE 0)
          [] k = "status" ->
                (IF ~Has(body, "speed") \/ body.speed = 0 THEN "stopped"
                 ELSE IF body.speed < 5 THEN "idle" ELSE "moving")
          [] OTHER -> body[k]]

Content(s) == [k \in (DOMAIN s \ {"id", "timestamp"}) |-> s[k]]

(* C21: however two ingestions interleave, the store holds one sample for
   each insert made so far, each under an _id of its own; the sample an
   ingestion stored is the one built from its body and stays stored as it
   was acknowledged, whatever the other ingestion does. *)
C21_IngestionsCommute ==
    /\ Len(store) = nextId - 1
    /\ \A i, j \in DOMAIN store : i # j => store[i].id # store[j].id
    /\ \A d \in acked : d \in Samples
    /\ \A c \in Clients :
          reqs[c].pc = "respond" =>
              /\ reqs[c].doc \in Samples
              /\ Content(reqs[c].doc) = ReportOf(reqs[c].body)

C21_Witness ==
    /\ Len(store) = 2
    /\ store[1].busId # store[2].busId
    /\ \E d \in acked : d.id = 2
    /\ \E c \in Clients : reqs[c].pc = "respond" /\ reqs[c].doc.id = 1

(* C22: byTrip(tripId) returns the stored samples whose tripId is the given
   one, each once and all of them, none of another trip or of no trip, in
   ascending order of timestamp. *)
C22_ByTrip ==
    resp.op = "byTrip" =>
        LET ofTrip == {s \in Samples :
                         Has(s, "tripId") /\ s.tripId = resp.tripId}
        IN  /\ resp.code = 200
            /\ Len(resp.data) = Cardinality(ofTrip)
            /\ \A s \in ofTrip :
                  \E i \in DOMAIN resp.data : IsProjectionOf(resp.data[i], s)
            /\ \A i \in DOMAIN resp.data :
                  \E s \in ofTrip : IsProjectionOf(resp.data[i], s)
            /\ \A i, j \in DOMAIN resp.data :
                  i < j => resp.data[i].timestamp <= resp.data[j].timestamp

C22_Witness ==
    /\ resp.op = "byTrip"
    /\ Len(resp.data) = 1
    /\ Len(store) = 2
    /\ \E s \in Samples : ~Has(s, "tripId")

(* C25: an ingestion that names a tripId of no existing trip is answered
   NotFound (404), and no stored sample names such a trip. *)
C25_UnknownTrip ==
    /\ (resp.op = "create" /\ Has(resp.body, "tripId")
          /\ resp.body.tripId \notin Trips) => resp.code = 404
    /\ \A s \in Samples : Has(s, "tripId") => s.tripId \in Trips

(* The credentials of an existing, active user with one of the roles *)
Authorised(auth, roles) ==
    /\ auth.kind = "bearer"
    /\ auth.valid
    /\ auth.id \in {"ua", "uo", "uc", "ux"}
    /\ Users[auth.id].status = "active"
    /\ Users[auth.id].role \in roles

Authenticated(auth) == Authorised(auth, {"admin", "operator", "commuter"})

(* C23: an ingestion enters the controller, and a sample is inserted, only
   for a request with the valid token of an active user who is operator or
   admin; a purge runs only for such a user who is admin.  A request without
   such a token is answered 401 and one of another role 403, whatever its
   body, and the step that answers so leaves the store and the requests in
   flight as they were. *)
C23_AuthorisedWrites ==
    /\ [](/\ \A c \in Clients :
                reqs[c].pc # "idle" =>
                    Authorised(reqs[c].auth, {"operator", "admin"})
          /\ (resp.op = "create" /\ resp.code = 400)
                => Authorised(resp.auth, {"operator", "admin"})
          /\ (resp.op = "create" /\ Has(resp, "auth")
                /\ ~Authenticated(resp.auth)) => resp.code = 401
          /\ (resp.op = "create" /\ Has(resp, "auth")
                /\ Authenticated(resp.auth)
                /\ ~Authorised(resp.auth, {"operator", "admin"}))
                => resp.code = 403
          /\ (resp.op = "cleanup" /\ ~Authenticated(resp.auth))
                => resp.code = 401
          /\ (resp.op = "cleanup" /\ Authenticated(resp.auth)
                /\ ~Authorised(resp.auth, {"admin"})) => resp.code = 403
          /\ (resp.op = "cleanup" /\ resp.code = 200)
                => Authorised(resp.auth, {"admin"}))
    /\ [][ /\ resp'.code \in {401, 403} => (store' = store /\ reqs' = reqs)
           /\ store' # store =>
                 \/ \E c \in Clients :
                       /\ reqs[c].pc = "create" /\ reqs'[c].pc = "respond"
                       /\ Authorised(reqs[c].auth, {"operator", "admin"})
                 \/ /\ resp'.op = "cleanup" /\ resp'.code = 200
                    /\ Authorised(resp'.auth, {"admin"}) ]_vars

C23_Witness ==
    /\ resp.op = "cleanup"
    /\ resp.code = 403
    /\ resp.auth.id = "uo"
    /\ store # <<>>
    /\ store[1].timestamp < now - 86400

(* C24: a stored sample that has become older than 30 days is eventually
   deleted, and a step of the retention rule deletes no sample that is not
   older than 30 days. *)
C24_Retention ==
    /\ \A id \in 1..(MaxSamples + 1) :
          (\E s \in Samples : s.id = id /\ s.timestamp < now - TTLSeconds)
             ~> (\A s \in Samples : s.id # id)
    /\ [][TTLExpire =>
             \A s \in Samples :
                s.timestamp >= now - TTLSeconds => s \in Range(store')]_vars

(* C26: a request to latest, history, stats or byTrip is answered 400 by the
   validation of its route parameter exactly when the id in its path is not
   a well-formed 24-hex id. *)
C26_WellFormedIdPasses ==
    (resp.op \in {"latest", "history", "stats", "byTrip"}
        /\ Has(resp, "params"))
    => \A k \in DOMAIN resp.params :
          (resp.code = 400) <=> (resp.params[k] \notin ObjectIds)

(* C27: once the global error handler has returned for an error a handler
   or middleware raised, the error response has been sent, whatever
   NODE_ENV is. *)
C27_ErrorAnswered == Has(resp, "handled") => resp.sent

(* C28: the vehicle of every stored sample exists, also after a vehicle was
   deleted and when the deletion falls between the existence check and the
   insert of an ingestion. *)
C28_SamplesResolve == \A s \in Samples : s.busId \in DOMAIN buses

(* C29: the cutoff of every purge lies before the current time, whatever
   days is, and no purge deletes a sample whose timestamp is the current time
   or later. *)
C29_CutoffInPast ==
    /\ [](resp.op = "cleanup" => resp.cutoffDate < now)
    /\ [][ resp'.op = "cleanup" =>
             \A s \in Samples :
                s.timestamp >= now => s \in Range(store') ]_vars

(* The stored samples of the last ten minutes whose reported distance from
   the query point of the last response is within its radius *)
Qualifying ==
    {s \in Samples :
        /\ s.timestamp >= now - 600
        /\ toFixed2(TrueDistance(s)) <= resp.radius * 1000}

(* C30: a proximity search returns one entry for each stored sample of the
   last ten minutes within the radius and no other entry, so a vehicle is
   listed as many times as it has such samples, whatever the status of the
   vehicle; every sample whose distance is within the radius is among them. *)
C30_EntryPerSample ==
    (resp.op = "nearby" /\ resp.code = 200) =>
        /\ \A i, j \in DOMAIN resp.data :
              i # j => resp.data[i].id # resp.data[j].id
        /\ {resp.data[i].id : i \in DOMAIN resp.data}
              = {s.id : s \in Qualifying}
        /\ \A b \in DOMAIN buses :
              Cardinality({i \in DOMAIN resp.data : resp.data[i].busId = b})
                = Cardinality({s \in Qualifying : s.busId = b})
        /\ \A s \in Samples :
              (s.timestamp >= now - 600
                 /\ TrueDistance(s) <= resp.radius * 1000)
              => \E i \in DOMAIN resp.data : resp.data[i].id = s.id

C30_Witness ==
    /\ resp.op = "nearby"
    /\ resp.code = 200
    /\ Len(resp.data) = 2
    /\ resp.data[1].busId = "b2"
    /\ resp.data[2].busId = "b2"
    /\ resp.data[1].id # resp.data[2].id
    /\ buses["b2"] = "inactive"
    /\ TrueDistance(resp.data[1]) <= resp.radius * 1000

====
